---- MODULE Spec2Model ----
(***************************************************************************)
(* Model of the dining hall meal optimizer (src/dining_optimizer.py):     *)
(* DiningHallOptimizer.categorize_food, find_combinations,                *)
(* calculate_meal_score and fetch_menu with its cache.                    *)
(*                                                                         *)
(* Item names are strings; nutrition values are integers; a ratio         *)
(* protein / max(calories, 1) is kept as the pair <<protein, max(..)>>    *)
(* and two ratios are compared by cross-multiplication.  A combination    *)
(* holds references (positions in menu_items) to its member items, as the *)
(* Python tuples hold references to the dicts of the caller's list.       *)
(***************************************************************************)
EXTENDS Integers, Sequences, FiniteSets, TLC

VARIABLES
    menu_items,          \* the caller's item list (list of dicts)
    added,               \* number of items the caller appended to it
    calls,               \* number of find_combinations calls made so far
    args,                \* arguments of the latest call
    prev_args,           \* arguments of the call before it
    valid_items,         \* locals of the latest call ...
    top_proteins,
    top_veggies,
    top_carbs,
    valid_combos,
    unique_combos,
    result,              \* list returned by the latest call
    returned,            \* the latest return value, items dereferenced
    prev_returned,       \* the return value of the call before it
    cat_item,            \* argument of the latest direct categorize_food call
    cat_result,          \* its return value
    score_items,         \* items argument of the calculate_meal_score call
    score_args,          \* its protein_goal and calorie_limit
    score_result,        \* its return value (score, reasons), <<>> before it
    cache,               \* the files of cache_dir: cache key -> file content
    now,                 \* datetime.now(), in days since Monday 2024-01-01
    fetches,             \* number of fetch_menu calls made so far
    fetch_key,           \* cache key of the latest fetch_menu call
    api_response,        \* <<response>> if that call contacted the API, else <<>>
    fetch_result         \* list returned by that call

vars == <<menu_items, added, calls, args, prev_args, valid_items, top_proteins,
          top_veggies, top_carbs, valid_combos, unique_combos, result,
          returned, prev_returned, cat_item, cat_result,
          score_items, score_args, score_result,
          cache, now, fetches, fetch_key, api_response, fetch_result>>

fetch_vars == <<cache, now, fetches, fetch_key, api_response, fetch_result>>

score_vars == <<score_items, score_args, score_result>>

search_vars == <<calls, args, prev_args, valid_items, top_proteins,
                 top_veggies, top_carbs, valid_combos, unique_combos, result,
                 returned, prev_returned>>

-----------------------------------------------------------------------------
(* Bounds of the model. *)

MaxAdded == 2        \* items appended to the initial list
MaxCalls == 2        \* find_combinations calls on one list
MaxFetches == 3      \* fetch_menu calls on one cache directory
MaxDay == 8          \* last day the clock reaches

-----------------------------------------------------------------------------
(* Generic helpers. *)

Min(a, b) == IF a < b THEN a ELSE b
Max(a, b) == IF a > b THEN a ELSE b

\* Python slice s[:n]
Take(s, n) == SubSeq(s, 1, Min(n, Len(s)))

\* a list comprehension [f(x) for x in ...]: the list with every element computed
List(f) == f \o <<>>

\* set of the elements of a sequence
Range(s) == {s[i] : i \in DOMAIN s}

\* list.sort(key=...), where less[i][j] iff key(s[i]) < key(s[j]).  The sort is
\* stable: s[j] ends up before s[i] iff its key is smaller, or the keys are
\* equal and j < i; place[i] is the number of elements that end up before s[i].
SortedBy(s, less) ==
    LET place == List([i \in DOMAIN s |->
                     Cardinality({j \in DOMAIN s :
                         \/ less[j][i]
                         \/ (~less[i][j] /\ j < i)})])
    IN  List([k \in DOMAIN s |-> s[CHOOSE i \in DOMAIN s : place[i] = k - 1]])

-----------------------------------------------------------------------------
(* Strings: characters, lowercasing, substring test, code point order. *)

UpperChars == "ABCDEFGHIJKLMNOPQRSTUVWXYZ"
LowerChars == "abcdefghijklmnopqrstuvwxyz"

CharAt(s, i) == SubSeq(s, i, i)

\* code point order of the characters that occur in names:
\* space < upper case < lower case
CodeChars == " " \o UpperChars \o LowerChars
CodeOf == [c \in {CharAt(CodeChars, i) : i \in 1..Len(CodeChars)} |->
              CHOOSE i \in 1..Len(CodeChars) : CharAt(CodeChars, i) = c]

LowerOf == [c \in {CharAt(CodeChars, i) : i \in 1..Len(CodeChars)} |->
               IF \E i \in 1..26 : CharAt(UpperChars, i) = c
               THEN CharAt(LowerChars, CHOOSE i \in 1..26 : CharAt(UpperChars, i) = c)
               ELSE c]

\* str.lower()
RECURSIVE Lower(_)
Lower(s) ==
    IF Len(s) = 0 THEN ""
    ELSE LowerOf[CharAt(s, 1)] \o Lower(SubSeq(s, 2, Len(s)))

\* keyword in name
Contains(name, keyword) ==
    \E i \in 1..(Len(name) - Len(keyword) + 1) :
        SubSeq(name, i, i + Len(keyword) - 1) = keyword

\* Python str comparison a < b (lexicographic by code point)
RECURSIVE StrLess(_, _)
StrLess(a, b) ==
    IF Len(b) = 0 THEN FALSE
    ELSE IF Len(a) = 0 THEN TRUE
    ELSE IF CharAt(a, 1) = CharAt(b, 1)
         THEN StrLess(SubSeq(a, 2, Len(a)), SubSeq(b, 2, Len(b)))
         ELSE CodeOf[CharAt(a, 1)] < CodeOf[CharAt(b, 1)]

-----------------------------------------------------------------------------
(* categorize_food *)

protein_keywords ==
    <<"chicken", "beef", "pork", "fish", "salmon", "tuna", "turkey", "duck",
      "tofu", "tempeh", "seitan", "egg", "shrimp", "steak", "patty", "sausage",
      "bacon", "ham", "lamb", "tilapia", "cod", "halibut", "edamame", "beans">>

carb_keywords ==
    <<"rice", "pasta", "bread", "potato", "fries", "noodle", "quinoa", "couscous",
      "tortilla", "bun", "roll", "bagel", "cereal", "oat", "waffle", "pancake",
      "muffin", "biscuit", "mac", "macaroni", "spaghetti", "penne", "linguine">>

vegetable_keywords ==
    <<"broccoli", "salad", "lettuce", "spinach", "kale", "carrot", "broccolini",
      "tomato", "cucumber", "pepper", "green beans", "corn", "peas", "mushroom",
      "vegetable", "greens", "cabbage", "cauliflower", "asparagus", "zucchini",
      "squash", "brussels", "bok choy", "celery", "onion", "eggplant">>

fruit_keywords ==
    <<"apple", "banana", "orange", "berry", "strawberry", "blueberry", "melon",
      "grape", "pineapple", "mango", "peach", "pear", "fruit", "watermelon">>

\* for keyword in keywords: if keyword in name
MatchesAny(name, keywords) ==
    \E k \in DOMAIN keywords : Contains(name, keywords[k])

\* variant of NutritionCategory: "protein > 15" in place of "protein >= 15"
NutritionCategoryStrict(item) ==
    IF item.protein > 15 THEN "protein"
    ELSE IF item.carbs >= 25 /\ item.protein < 8 THEN "carb"
    ELSE IF item.calories < 50 /\ item.carbs < 15 THEN "vegetable"
    ELSE "other"

\* the nutrition rules of categorize_food, used when no keyword matches
NutritionCategory(item) ==
    IF item.protein >= 15 THEN "protein"
    ELSE IF item.carbs >= 25 /\ item.protein < 8 THEN "carb"
    ELSE IF item.calories < 50 /\ item.carbs < 15 THEN "vegetable"
    ELSE "other"

\* variant of categorize_food: vegetable keywords tested before protein keywords
categorize_food_vegetable_first(item) ==
    LET name == Lower(item.name)
    IN  IF MatchesAny(name, vegetable_keywords) THEN "vegetable"
        ELSE IF MatchesAny(name, protein_keywords) THEN "protein"
        ELSE IF MatchesAny(name, fruit_keywords) THEN "fruit"
        ELSE IF MatchesAny(name, carb_keywords) THEN "carb"
        ELSE NutritionCategory(item)

categorize_food(item) ==
    LET name == Lower(item.name)
    IN  IF MatchesAny(name, protein_keywords) THEN "protein"
        ELSE IF MatchesAny(name, vegetable_keywords) THEN "vegetable"
        ELSE IF MatchesAny(name, fruit_keywords) THEN "fruit"
        ELSE IF MatchesAny(name, carb_keywords) THEN "carb"
        ELSE NutritionCategory(item)

-----------------------------------------------------------------------------
(* Items and combinations. *)

None == "None"              \* Python None (no dining hall filter)
NoCategory == "absent"      \* the dict has no 'category' key
NoEfficiency == <<>>        \* the dict has no 'protein_efficiency' key

WestVillage == "West Village"
NorthAve == "North Ave Dining Hall"

\* an item dict as fetch_menu builds it
Item(name, protein, calories, fat, carbs, hall) ==
    [name |-> name, calories |-> calories, protein |-> protein, fat |-> fat,
     carbs |-> carbs, dining_hall |-> hall,
     category |-> NoCategory, protein_efficiency |-> NoEfficiency]

\* a / b > c / d for ratios <<a, b>>, <<c, d>> with positive denominators
RatioGreater(x, y) == x[1] * y[2] > y[1] * x[2]

RECURSIVE SumSeq(_)
SumSeq(s) == IF s = <<>> THEN 0 ELSE Head(s) + SumSeq(Tail(s))

\* (combo, total_protein, total_calories); combo refers to items by position
Combo(items, members) ==
    [items          |-> members,
     total_protein  |-> SumSeq(List([k \in DOMAIN members |-> items[members[k]].protein])),
     total_calories |-> SumSeq(List([k \in DOMAIN members |-> items[members[k]].calories]))]

\* variant of Feasible: the calorie limit is not tested
FeasibleProteinOnly(c, protein_goal, calorie_limit) ==
    c.total_protein >= protein_goal

\* total_protein >= protein_goal and total_calories <= calorie_limit
Feasible(c, protein_goal, calorie_limit) ==
    c.total_protein >= protein_goal /\ c.total_calories <= calorie_limit

\* nested for loops: outer over A, inner over B
Cross2(A, B) ==
    List([k \in 1..(Len(A) * Len(B)) |->
        <<A[((k - 1) \div Len(B)) + 1], B[((k - 1) % Len(B)) + 1]>>])

\* nested for loops: outer over A, then B, inner over C
Cross3(A, B, C) ==
    List([k \in 1..(Len(A) * Len(B) * Len(C)) |->
        <<A[((k - 1) \div (Len(B) * Len(C))) + 1],
          B[(((k - 1) \div Len(C)) % Len(B)) + 1],
          C[((k - 1) % Len(C)) + 1]>>])

\* the feasible candidates, in order, as (combo, total_protein, total_calories)
Emit(items, candidates, protein_goal, calorie_limit) ==
    LET combos == List([k \in DOMAIN candidates |-> Combo(items, candidates[k])])
    IN  SelectSeq(combos, LAMBDA c : Feasible(c, protein_goal, calorie_limit))

-----------------------------------------------------------------------------
(* find_combinations: pre-filter, annotation and candidate pools. *)

\* variant of ValidItems: items a previous call has annotated are skipped
ValidItemsUnannotated(items, calorie_limit, dining_hall_filter) ==
    LET all   == List([i \in 1..Len(items) |-> i])
        byCal == SelectSeq(all, LAMBDA i : /\ items[i].calories > 0
                                           /\ items[i].calories < calorie_limit
                                           /\ items[i].category = NoCategory)
    IN  IF dining_hall_filter # None
        THEN SelectSeq(byCal, LAMBDA i : items[i].dining_hall = dining_hall_filter)
        ELSE byCal

\* variant of ValidItems: "calories <= calorie_limit" in place of "<"
ValidItemsInclusive(items, calorie_limit, dining_hall_filter) ==
    LET all   == List([i \in 1..Len(items) |-> i])
        byCal == SelectSeq(all, LAMBDA i : /\ items[i].calories > 0
                                           /\ items[i].calories <= calorie_limit)
    IN  IF dining_hall_filter # None
        THEN SelectSeq(byCal, LAMBDA i : items[i].dining_hall = dining_hall_filter)
        ELSE byCal

ValidItems(items, calorie_limit, dining_hall_filter) ==
    LET all   == List([i \in 1..Len(items) |-> i])
        byCal == SelectSeq(all, LAMBDA i : /\ items[i].calories > 0
                                           /\ items[i].calories < calorie_limit)
    IN  IF dining_hall_filter # None
        THEN SelectSeq(byCal, LAMBDA i : items[i].dining_hall = dining_hall_filter)
        ELSE byCal

\* variant of Annotate: every item of the list is annotated, filtered out or not
AnnotateAll(items, valid) ==
    List([i \in DOMAIN items |->
        [items[i] EXCEPT
            !.category = categorize_food(items[i]),
            !.protein_efficiency = <<items[i].protein, Max(items[i].calories, 1)>>]])

\* variant of Annotate: the category comes from the nutrition rules alone
AnnotateByNutrition(items, valid) ==
    List([i \in DOMAIN items |->
        IF i \in Range(valid)
        THEN [items[i] EXCEPT
                !.category = NutritionCategory(items[i]),
                !.protein_efficiency = <<items[i].protein, Max(items[i].calories, 1)>>]
        ELSE items[i]])

\* item['category'] = ...; item['protein_efficiency'] = ... on the caller's dicts
Annotate(items, valid) ==
    List([i \in DOMAIN items |->
        IF i \in Range(valid)
        THEN [items[i] EXCEPT
                !.category = categorize_food(items[i]),
                !.protein_efficiency = <<items[i].protein, Max(items[i].calories, 1)>>]
        ELSE items[i]])

\* key=lambda x: (-x['protein_efficiency'], -x['protein'])
ProteinKeyBefore(items, a, b) ==
    \/ RatioGreater(items[a].protein_efficiency, items[b].protein_efficiency)
    \/ /\ ~RatioGreater(items[b].protein_efficiency, items[a].protein_efficiency)
       /\ items[a].protein > items[b].protein

\* key=lambda x: (-x['protein_efficiency'], x['calories'])
CalorieKeyBefore(items, a, b) ==
    \/ RatioGreater(items[a].protein_efficiency, items[b].protein_efficiency)
    \/ /\ ~RatioGreater(items[b].protein_efficiency, items[a].protein_efficiency)
       /\ items[a].calories < items[b].calories

\* variant of TopProteins: the pool is drawn from the items tagged protein
TopProteinsByCategory(items, valid) ==
    LET high_protein_items == SelectSeq(valid, LAMBDA i :
                                  /\ items[i].protein >= 10
                                  /\ items[i].category = "protein")
        less == [i \in DOMAIN high_protein_items |->
                    [j \in DOMAIN high_protein_items |->
                        ProteinKeyBefore(items, high_protein_items[i],
                                         high_protein_items[j])]]
    IN  Take(SortedBy(high_protein_items, less), 30)

TopProteins(items, valid) ==
    LET high_protein_items == SelectSeq(valid, LAMBDA i : items[i].protein >= 10)
        less == [i \in DOMAIN high_protein_items |->
                    [j \in DOMAIN high_protein_items |->
                        ProteinKeyBefore(items, high_protein_items[i],
                                         high_protein_items[j])]]
    IN  Take(SortedBy(high_protein_items, less), 30)

TopVeggies(items, valid) ==
    LET veggie_items == SelectSeq(valid, LAMBDA i :
                            /\ items[i].category \in {"vegetable", "fruit"}
                            /\ items[i].calories < 100)
        less == [i \in DOMAIN veggie_items |->
                    [j \in DOMAIN veggie_items |->
                        CalorieKeyBefore(items, veggie_items[i], veggie_items[j])]]
    IN  Take(SortedBy(veggie_items, less), 25)

TopCarbs(items, valid) ==
    LET carb_items == SelectSeq(valid, LAMBDA i :
                            /\ items[i].category = "carb"
                            /\ items[i].carbs >= 15
                            /\ items[i].calories < 300)
        less == [i \in DOMAIN carb_items |->
                    [j \in DOMAIN carb_items |->
                        CalorieKeyBefore(items, carb_items[i], carb_items[j])]]
    IN  Take(SortedBy(carb_items, less), 20)

-----------------------------------------------------------------------------
(* find_combinations: the five enumeration strategies, in source order. *)

\* variant of ProteinVeggie: only the best protein is paired
ProteinVeggieFirstProtein(items, proteins, veggies, protein_goal, calorie_limit) ==
    LET pairs == SelectSeq(Cross2(Take(proteins, 1), Take(veggies, 15)),
                     LAMBDA m : items[m[1]].name # items[m[2]].name)
    IN  Emit(items, pairs, protein_goal, calorie_limit)

\* Strategy 1: top 15 proteins x top 15 vegetables
ProteinVeggie(items, proteins, veggies, protein_goal, calorie_limit) ==
    LET pairs == SelectSeq(Cross2(Take(proteins, 15), Take(veggies, 15)),
                     LAMBDA m : items[m[1]].name # items[m[2]].name)
    IN  Emit(items, pairs, protein_goal, calorie_limit)

\* Strategy 2: top 12 proteins x top 12 vegetables x top 10 carbs
ProteinVeggieCarb(items, proteins, veggies, carbs, protein_goal, calorie_limit) ==
    LET triples == SelectSeq(
                     Cross3(Take(proteins, 12), Take(veggies, 12), Take(carbs, 10)),
                     LAMBDA m : /\ items[m[1]].name # items[m[2]].name
                                /\ items[m[3]].name \notin
                                       {items[m[1]].name, items[m[2]].name})
    IN  Emit(items, triples, protein_goal, calorie_limit)

\* Strategy 3: top 15 proteins x top 12 carbs
ProteinCarb(items, proteins, carbs, protein_goal, calorie_limit) ==
    LET pairs == SelectSeq(Cross2(Take(proteins, 15), Take(carbs, 12)),
                     LAMBDA m : items[m[1]].name # items[m[2]].name)
    IN  Emit(items, pairs, protein_goal, calorie_limit)

\* variant of DoubleProteinVeggie: the second protein is taken from the top 10
DoubleProteinVeggieTopTen(items, proteins, veggies, protein_goal, calorie_limit) ==
    LET firsts  == List([i \in 1..Len(Take(proteins, 10)) |-> i])
        seconds == List([j \in 1..Len(Take(proteins, 10)) |-> j])
        picks   == SelectSeq(Cross3(firsts, seconds, Take(veggies, 10)),
                       LAMBDA t : /\ t[2] > t[1]
                                  /\ items[t[3]].name \notin
                                         {items[proteins[t[1]]].name,
                                          items[proteins[t[2]]].name})
        triples == List([k \in DOMAIN picks |->
                       <<proteins[picks[k][1]], proteins[picks[k][2]], picks[k][3]>>])
    IN  Emit(items, triples, protein_goal, calorie_limit)

\* Strategy 4: for i, protein1 in enumerate(top_proteins[:10]):
\*                 for protein2 in top_proteins[i+1:15]:
\*                     for veggie in top_veggies[:10]
DoubleProteinVeggie(items, proteins, veggies, protein_goal, calorie_limit) ==
    LET firsts  == List([i \in 1..Len(Take(proteins, 10)) |-> i])
        seconds == List([j \in 1..Len(Take(proteins, 15)) |-> j])
        picks   == SelectSeq(Cross3(firsts, seconds, Take(veggies, 10)),
                       LAMBDA t : /\ t[2] > t[1]
                                  /\ items[t[3]].name \notin
                                         {items[proteins[t[1]]].name,
                                          items[proteins[t[2]]].name})
        triples == List([k \in DOMAIN picks |->
                       <<proteins[picks[k][1]], proteins[picks[k][2]], picks[k][3]>>])
    IN  Emit(items, triples, protein_goal, calorie_limit)

\* variant of SingleItem: the goal and the limit are not tested
SingleItemUnchecked(items, proteins, protein_goal, calorie_limit) ==
    LET top == Take(proteins, 20)
    IN  List([k \in DOMAIN top |-> Combo(items, <<top[k]>>)])

\* Strategy 5: each of the top 20 proteins alone
SingleItem(items, proteins, protein_goal, calorie_limit) ==
    LET top == Take(proteins, 20)
        singles == SelectSeq(top, LAMBDA i : /\ items[i].protein >= protein_goal
                                             /\ items[i].calories <= calorie_limit)
    IN  List([k \in DOMAIN singles |-> Combo(items, <<singles[k]>>)])

\* variant of ValidCombos: the single items are appended first
ValidCombosSinglesFirst(items, proteins, veggies, carbs, protein_goal, calorie_limit) ==
    SingleItem(items, proteins, protein_goal, calorie_limit)
    \o ProteinVeggie(items, proteins, veggies, protein_goal, calorie_limit)
    \o ProteinVeggieCarb(items, proteins, veggies, carbs, protein_goal, calorie_limit)
    \o ProteinCarb(items, proteins, carbs, protein_goal, calorie_limit)
    \o DoubleProteinVeggie(items, proteins, veggies, protein_goal, calorie_limit)

\* valid_combos after the five strategies
ValidCombos(items, proteins, veggies, carbs, protein_goal, calorie_limit) ==
    ProteinVeggie(items, proteins, veggies, protein_goal, calorie_limit)
    \o ProteinVeggieCarb(items, proteins, veggies, carbs, protein_goal, calorie_limit)
    \o ProteinCarb(items, proteins, carbs, protein_goal, calorie_limit)
    \o DoubleProteinVeggie(items, proteins, veggies, protein_goal, calorie_limit)
    \o SingleItem(items, proteins, protein_goal, calorie_limit)

-----------------------------------------------------------------------------
(* find_combinations: deduplication and ranking. *)

\* variant of ItemsKey: the names are not sorted
ItemsKeyUnsorted(items, combo) ==
    List([k \in DOMAIN combo.items |-> items[combo.items[k]].name])

\* tuple(sorted(item['name'] for item in combo[0]))
ItemsKey(items, combo) ==
    LET names == List([k \in DOMAIN combo.items |-> items[combo.items[k]].name])
        less  == [i \in DOMAIN names |->
                     [j \in DOMAIN names |-> StrLess(names[i], names[j])]]
    IN  SortedBy(names, less)

\* the "Remove duplicates" loop: when combos[n] is visited, seen holds the
\* keys of combos[1..n-1]
UniqueCombos(items, combos) ==
    LET keys    == List([n \in DOMAIN combos |-> ItemsKey(items, combos[n])])
        seen(n) == {keys[m] : m \in 1..(n - 1)}
        kept    == SelectSeq(List([n \in DOMAIN combos |-> n]),
                             LAMBDA n : keys[n] \notin seen(n))
    IN  List([k \in DOMAIN kept |-> combos[kept[k]]])

\* protein efficiency of a combination, x[1] / max(x[2], 1)
ComboEfficiency(c) == <<c.total_protein, Max(c.total_calories, 1)>>

\* variant of ComboKeyBefore: ties go to the smaller total protein
ComboKeyBeforeAscending(a, b) ==
    \/ RatioGreater(ComboEfficiency(a), ComboEfficiency(b))
    \/ /\ ~RatioGreater(ComboEfficiency(b), ComboEfficiency(a))
       /\ a.total_protein < b.total_protein

\* key=lambda x: (-x[1]/max(x[2], 1), -x[1])
ComboKeyBefore(a, b) ==
    \/ RatioGreater(ComboEfficiency(a), ComboEfficiency(b))
    \/ /\ ~RatioGreater(ComboEfficiency(b), ComboEfficiency(a))
       /\ a.total_protein > b.total_protein

\* variant of TopCombos: the list is cut to 15 before it is sorted
TopCombosCutFirst(unique) ==
    LET cut  == Take(unique, 15)
        less == [i \in DOMAIN cut |->
                    [j \in DOMAIN cut |-> ComboKeyBefore(cut[i], cut[j])]]
    IN  SortedBy(cut, less)

\* unique_combos.sort(...); return unique_combos[:15]
TopCombos(unique) ==
    LET less == [i \in DOMAIN unique |->
                    [j \in DOMAIN unique |-> ComboKeyBefore(unique[i], unique[j])]]
    IN  Take(SortedBy(unique, less), 15)

\* what the caller reads through the returned list: each member reference
\* together with the dict it refers to
Deref(items, res) ==
    [k \in DOMAIN res |->
        [items          |-> [m \in DOMAIN res[k].items |->
                                <<res[k].items[m], items[res[k].items[m]]>>],
         total_protein  |-> res[k].total_protein,
         total_calories |-> res[k].total_calories]]

-----------------------------------------------------------------------------
(* Inputs. *)

\* items a caller may append to its list
Catalogue ==
    { Item("Grilled Chicken",  35, 200,  5,  0, WestVillage),
      Item("Grilled Chicken",  30, 150,  4,  0, NorthAve),
      Item("Steamed Broccoli",  3,  30,  0,  6, WestVillage),
      Item("Garden Salad",     15,  80,  2,  8, NorthAve),
      Item("Kale Crunch",      16,  90,  3,  6, NorthAve),
      Item("Daily Special",    40, 200,  8, 10, WestVillage),
      Item("Whey Shake",       40, 300,  3, 12, WestVillage) }

\* a list as the callers build it from the fetched hall menus
WeekMenu ==
    << Item("Grilled Chicken",  35, 200,  5,  0, WestVillage),
       Item("Steamed Broccoli",  3,  30,  0,  6, WestVillage),
       Item("Brown Rice",        5, 200,  2, 45, WestVillage),
       Item("Daily Special",    40, 200,  8, 10, NorthAve),
       Item("Fruit Cup",         1,  60,  0, 15, NorthAve),
       Item("Dinner Roll",       4, 120,  2, 22, NorthAve),
       Item("Water",             0,   0,  0,  0, NorthAve) >>

InitialMenus == { <<>>, WeekMenu }

\* (protein_goal, calorie_limit, dining_hall_filter) of a call
Args(protein_goal, calorie_limit, dining_hall_filter) ==
    [protein_goal |-> protein_goal, calorie_limit |-> calorie_limit,
     dining_hall_filter |-> dining_hall_filter]

ArgChoices ==
    { Args(30, 300, None), Args(200, 300, None),
      Args(30, 600, None), Args(40, 600, WestVillage) }

NoArgs == Args(0, 0, None)

-----------------------------------------------------------------------------
(* The state machine. *)

\* no call of find_combinations has been made
NoSearch ==
    /\ added = 0
    /\ calls = 0
    /\ args = NoArgs
    /\ prev_args = NoArgs
    /\ valid_items = <<>>
    /\ top_proteins = <<>>
    /\ top_veggies = <<>>
    /\ top_carbs = <<>>
    /\ valid_combos = <<>>
    /\ unique_combos = <<>>
    /\ result = <<>>
    /\ returned = <<>>
    /\ prev_returned = <<>>

\* no direct call of categorize_food has been made
NoCategorize ==
    /\ cat_item = Item("", 0, 0, 0, 0, "")
    /\ cat_result = NoCategory

\* no call of calculate_meal_score has been made
NoScoring ==
    /\ score_items = <<>>
    /\ score_args = NoArgs
    /\ score_result = <<>>

\* no call of fetch_menu has been made and cache_dir holds no file
NoFetching ==
    /\ cache = <<>>
    /\ now = 0
    /\ fetches = 0
    /\ fetch_key = ""
    /\ api_response = <<>>
    /\ fetch_result = <<>>

Init ==
    /\ menu_items \in InitialMenus
    /\ NoSearch
    /\ NoCategorize
    /\ NoScoring
    /\ NoFetching

\* the caller extends its list before searching (all_items.extend(items))
AddItem(item) ==
    /\ calls = 0
    /\ added < MaxAdded
    /\ menu_items' = Append(menu_items, item)
    /\ added' = added + 1
    /\ UNCHANGED <<search_vars, cat_item, cat_result, score_vars, fetch_vars>>

\* one call of find_combinations on the caller's list; each local is bound
\* once, in the order the code assigns it
FindCombinations(a) ==
    /\ calls < MaxCalls
    /\ \E valid \in {ValidItems(menu_items, a.calorie_limit, a.dining_hall_filter)} :
       \E annotated \in {Annotate(menu_items, valid)} :
       \E proteins \in {TopProteins(annotated, valid)} :
       \E veggies \in {TopVeggies(annotated, valid)} :
       \E carbs \in {TopCarbs(annotated, valid)} :
       \E combos \in {ValidCombos(annotated, proteins, veggies, carbs,
                                    a.protein_goal, a.calorie_limit)} :
       \E unique \in {UniqueCombos(annotated, combos)} :
       \E top \in {TopCombos(unique)} :
           /\ menu_items' = annotated
           /\ valid_items' = valid
           /\ top_proteins' = proteins
           /\ top_veggies' = veggies
           /\ top_carbs' = carbs
           /\ valid_combos' = combos
           /\ unique_combos' = unique
           /\ result' = top
           /\ returned' = Deref(annotated, top)
    /\ prev_returned' = returned
    /\ prev_args' = args
    /\ args' = a
    /\ calls' = calls + 1
    /\ UNCHANGED <<added, cat_item, cat_result, score_vars, fetch_vars>>

Next ==
    \/ \E item \in Catalogue : AddItem(item)
    \/ \E a \in ArgChoices : FindCombinations(a)

Spec == Init /\ [][Next]_vars

-----------------------------------------------------------------------------
(* find_combinations on the menus of a whole week: more items with 10 g of *)
(* protein than the slices of the strategies and the protein pool take.    *)

EntreeLetters == UpperChars \o LowerChars

\* the i-th entree of the week: 15 g of protein, 30 + 5 i calories
Entree(i) ==
    Item("Entree " \o CharAt(EntreeLetters, i), 15, 30 + 5 * i, 1, 2,
         IF i <= 2 THEN NorthAve ELSE WestVillage)

\* a week's list with n entrees
Buffet(n) ==
    List([i \in 1..n |-> Entree(i)])
    \o << Item("Prime Rib",        50, 400, 20,  0, WestVillage),
          Item("Brisket",          50, 410, 22,  0, WestVillage),
          Item("Steamed Broccoli",  3,  30,  0,  6, NorthAve),
          Item("Garden Salad",     15,  80,  2,  8, NorthAve),
          Item("Dinner Roll",       4, 120,  2, 22, NorthAve),
          Item("Quinoa Bowl",      12, 150,  3, 25, NorthAve),
          Item("Combo Plate",      18,  65,  2,  4, NorthAve) >>

BuffetSizes == {6, 8, 9, 12, 26, 28}

BuffetMenus == {Buffet(n) : n \in BuffetSizes}

BuffetArgs ==
    { Args(100, 900, None), Args(68, 480, None),
      Args(18, 70, None), Args(18, 400, NorthAve) }

InitBuffet ==
    /\ menu_items \in BuffetMenus
    /\ NoSearch
    /\ NoCategorize
    /\ NoScoring
    /\ NoFetching

NextBuffet == \E a \in BuffetArgs : FindCombinations(a)

SpecBuffet == InitBuffet /\ [][NextBuffet]_vars

-----------------------------------------------------------------------------
(* categorize_food called on its own (calculate_meal_score, debug.py). *)

CategoryNames ==
    { "Chicken Salad", "Eggplant Parmesan", "Green Beans", "Corn Bread",
      "Pineapple Rice", "Tomato Apple Chutney", "Steamed Broccoli", "Fruit Cup",
      "Brown Rice", "Daily Special", "Whey Shake", "Water" }

CategoryProteins == {0, 7, 8, 14, 15}
CategoryCarbs    == {0, 14, 15, 24, 25}
CategoryCalories == {0, 49, 50}

CategoryItems ==
    { Item(name, protein, calories, 0, carbs, WestVillage) :
        name \in CategoryNames, protein \in CategoryProteins,
        carbs \in CategoryCarbs, calories \in CategoryCalories }

InitCategorize ==
    /\ menu_items = <<>>
    /\ NoSearch
    /\ cat_item \in CategoryItems
    /\ cat_result = NoCategory
    /\ NoScoring
    /\ NoFetching

\* category = self.categorize_food(item)
CategorizeFood ==
    /\ cat_result = NoCategory
    /\ cat_result' = categorize_food(cat_item)
    /\ UNCHANGED <<menu_items, added, search_vars, cat_item, score_vars,
                   fetch_vars>>

NextCategorize == CategorizeFood

SpecCategorize == InitCategorize /\ [][NextCategorize]_vars

-----------------------------------------------------------------------------
(* calculate_meal_score.  A float is kept as the exact ratio <<n, d>> with   *)
(* d > 0 that the code's expression denotes.                                *)

RECURSIVE GCD(_, _)
GCD(a, b) == IF b = 0 THEN a ELSE GCD(b, a % b)

\* the ratio n / d in lowest terms (n >= 0, d > 0)
Ratio(n, d) == <<n \div GCD(n, d), d \div GCD(n, d)>>
RatioAdd(x, y) ==
    LET common == (x[2] \div GCD(x[2], y[2])) * y[2]
    IN  Ratio(x[1] * (common \div x[2]) + y[1] * (common \div y[2]), common)
RatioLeq(x, y) == x[1] * y[2] <= y[1] * x[2]
RatioEq(x, y) == Ratio(x[1], x[2]) = Ratio(y[1], y[2])
RatioMin(x, y) == IF RatioLeq(x, y) THEN x ELSE y

\* sum(item[field] for item in items)
Total(items, field) == SumSeq(List([k \in DOMAIN items |-> items[k][field]]))

\* efficiency_score = min(protein_per_cal * 80, 40)
EfficiencyScore(protein_per_cal) ==
    RatioMin(Ratio(80 * protein_per_cal[1], protein_per_cal[2]), Ratio(40, 1))

\* precision_score = protein_precision + calorie_precision
PrecisionScore(total_protein, total_calories, protein_goal, calorie_limit) ==
    LET protein_waste     == total_protein - protein_goal
        protein_precision == Ratio(Max(0, 100 - 3 * protein_waste), 10)
        calorie_usage     == Ratio(total_calories, Max(calorie_limit, 1))
        calorie_precision == IF RatioLeq(calorie_usage, Ratio(1, 1))
                             THEN Ratio(10 * calorie_usage[1], calorie_usage[2])
                             ELSE Ratio(0, 1)
    IN  RatioAdd(protein_precision, calorie_precision)

\* lo <= pct <= hi for the literals lo = a/100 and hi = b/100
Within(pct, a, b) == RatioLeq(Ratio(a, 100), pct) /\ RatioLeq(pct, Ratio(b, 100))

\* balance_score from the three macro shares
BalanceScore(protein_pct, carb_pct, fat_pct) ==
    (IF Within(protein_pct, 25, 35) THEN 10
     ELSE IF Within(protein_pct, 20, 40) THEN 5 ELSE 0)
    + (IF Within(carb_pct, 40, 55) THEN 10
       ELSE IF Within(carb_pct, 30, 65) THEN 5 ELSE 0)
    + (IF Within(fat_pct, 20, 30) THEN 5
       ELSE IF Within(fat_pct, 15, 40) THEN 2 ELSE 0)

\* composition_score before the cap: 7, 5 and 2 for the kinds present plus
\* min(len(set(categories)), 3)
CompositionScore(categories) ==
    LET present == Range(categories)
    IN  (IF "protein" \in present THEN 7 ELSE 0)
        + (IF "vegetable" \in present \/ "fruit" \in present THEN 5 ELSE 0)
        + (IF "carb" \in present THEN 2 ELSE 0)
        + Min(Cardinality(present), 3)

\* variant of CompositionCapped: the cap of 15 is not applied
CompositionUncapped(categories) == CompositionScore(categories)

\* min(composition_score, 15)
CompositionCapped(categories) == Min(CompositionScore(categories), 15)

\* the return value (score, reasons)
calculate_meal_score(items, protein_goal, calorie_limit) ==
    LET total_protein  == Total(items, "protein")
        total_calories == Total(items, "calories")
        total_fat      == Total(items, "fat")
        total_carbs    == Total(items, "carbs")
        protein_per_cal == Ratio(total_protein, Max(total_calories, 1))
        efficiency_score == EfficiencyScore(protein_per_cal)
        precision_score == PrecisionScore(total_protein, total_calories,
                                          protein_goal, calorie_limit)
        total_cals_from_macros == total_protein * 4 + total_carbs * 4 + total_fat * 9
        protein_pct == Ratio(total_protein * 4, total_cals_from_macros)
        carb_pct    == Ratio(total_carbs * 4, total_cals_from_macros)
        fat_pct     == Ratio(total_fat * 9, total_cals_from_macros)
        balance_score == BalanceScore(protein_pct, carb_pct, fat_pct)
        categories == List([k \in DOMAIN items |-> categorize_food(items[k])])
        composition == CompositionCapped(categories)
        has_protein   == "protein" \in Range(categories)
        has_vegetable == "vegetable" \in Range(categories) \/ "fruit" \in Range(categories)
        has_carb      == "carb" \in Range(categories)
        upToPrecision == RatioAdd(efficiency_score, precision_score)
        upToBalance   == IF total_cals_from_macros > 0
                         THEN RatioAdd(upToPrecision, Ratio(balance_score, 1))
                         ELSE upToPrecision
        macroReasons  == IF total_cals_from_macros > 0
                         THEN [macro_balance |-> balance_score,
                               macros |-> [protein_pct |-> protein_pct,
                                           carb_pct |-> carb_pct,
                                           fat_pct |-> fat_pct]]
                         ELSE <<>>
    IN  IF total_protein < protein_goal \/ total_calories > calorie_limit
        THEN <<Ratio(0, 1), <<>> >>
        ELSE << RatioAdd(upToBalance, Ratio(composition, 1)),
                [protein_efficiency |-> protein_per_cal,
                 precision |-> precision_score,
                 composition |-> composition,
                 categories |-> categories,
                 has_protein |-> has_protein,
                 has_vegetable |-> has_vegetable,
                 has_carb |-> has_carb] @@ macroReasons >>

\* items a meal is scored on
ScoreCatalogue ==
    { Item("Grilled Chicken",  35, 200,  5,  0, WestVillage),
      Item("Steamed Broccoli",  3,  30,  0,  6, WestVillage),
      Item("Brown Rice",        5, 200,  2, 45, WestVillage),
      Item("Garden Salad",     15,  80,  2,  8, NorthAve),
      Item("Fruit Cup",         1,  60,  0, 15, NorthAve),
      Item("Daily Special",    40, 200,  8, 10, WestVillage),
      Item("Water",             0,   0,  0,  0, NorthAve) }

\* meals of up to three different items
ScoreMeals ==
    { <<>> }
    \cup { <<a>> : a \in ScoreCatalogue }
    \cup { m \in { <<a, b>> : a \in ScoreCatalogue, b \in ScoreCatalogue } :
               m[1] # m[2] }
    \cup { m \in { <<a, b, c>> : a \in ScoreCatalogue, b \in ScoreCatalogue,
                                  c \in ScoreCatalogue } :
               m[1] # m[2] /\ m[1] # m[3] /\ m[2] # m[3] }

ScoreArgs ==
    { Args(30, 300, None), Args(30, 600, None),
      Args(40, 230, None), Args(0, 300, None) }

InitScore ==
    /\ menu_items = <<>>
    /\ NoSearch
    /\ NoCategorize
    /\ score_items \in ScoreMeals
    /\ score_args \in ScoreArgs
    /\ score_result = <<>>
    /\ NoFetching

\* score, details = self.calculate_meal_score(items, protein_goal, calorie_limit)
CalculateMealScore ==
    /\ score_result = <<>>
    /\ score_result' = calculate_meal_score(score_items, score_args.protein_goal,
                                            score_args.calorie_limit)
    /\ UNCHANGED <<menu_items, added, search_vars, cat_item, cat_result,
                   score_items, score_args, fetch_vars>>

NextScore == CalculateMealScore

SpecScore == InitScore /\ [][NextScore]_vars

-----------------------------------------------------------------------------
(* fetch_menu and its cache.  A day is an integer, day 0 being Monday      *)
(* 2024-01-01; datetime.now() is the variable now.  A cache file holds     *)
(* the timestamp and the menu_items that _save_to_cache wrote; json and    *)
(* isoformat give back the values they were given, so the file content is  *)
(* kept as written.  A JSON value that may be null is a list of zero or    *)
(* one values: Null is null, Some(v) is v.  The 'sodium' and 'serving'     *)
(* keys of an item, which no search reads, are left out as in Item.        *)

CacheDays == 7        \* timedelta(days=7)

Null == <<>>
Some(v) == <<v>>

\* d.get(key, default)
Get(d, key, default) == IF key \in DOMAIN d THEN d[key] ELSE default

EmptyDict == <<>>

DigitChars == <<"0", "1", "2", "3", "4", "5", "6", "7", "8", "9">>

\* f"{n:02d}"
TwoDigits(n) == DigitChars[(n \div 10) + 1] \o DigitChars[(n % 10) + 1]

\* date.weekday(): Monday is 0
Weekday(date) == date % 7

\* date.strftime('%Y-%m-%d'), for the days of January 2024
DateString(date) == "2024-01-" \o TwoDigits(date + 1)

get_cache_key(dining_hall, meal_type, date) ==
    LET monday == date - Weekday(date)
    IN  dining_hall \o "_" \o meal_type \o "_" \o DateString(monday) \o ".json"

\* a variant that still takes a file of exactly 7 days as fresh
load_from_cache_inclusive(files, cache_key, today) ==
    IF /\ cache_key \in DOMAIN files
       /\ today - files[cache_key].timestamp <= CacheDays
    THEN Some(files[cache_key].menu_items)
    ELSE Null

\* the cached menu_items if the file exists and is less than 7 days old,
\* else None
load_from_cache(files, cache_key, today) ==
    IF /\ cache_key \in DOMAIN files
       /\ today - files[cache_key].timestamp < CacheDays
    THEN Some(files[cache_key].menu_items)
    ELSE Null

\* the files after _save_to_cache(cache_key, menu_items) at time today
save_to_cache(files, cache_key, menu_items_, today) ==
    [k \in DOMAIN files \cup {cache_key} |->
        IF k = cache_key
        THEN [timestamp |-> today, menu_items |-> menu_items_]
        ELSE files[k]]

\* self.dining_halls.get(dining_hall, dining_hall)
HallName(dining_hall) ==
    IF dining_hall = "west-village" THEN WestVillage
    ELSE IF dining_hall = "north-ave-dining-hall" THEN NorthAve
    ELSE dining_hall

\* the entries of all days, in order
RECURSIVE DayEntries(_)
DayEntries(days) ==
    IF days = <<>> THEN <<>>
    ELSE Get(Head(days), "menu_items", <<>>) \o DayEntries(Tail(days))

\* item.get('food', {})
FoodOf(entry) == Get(entry, "food", Some(EmptyDict))

\* food.get('rounded_nutrition_info', {})
NutritionOf(food) == Get(food, "rounded_nutrition_info", Some(EmptyDict))

\* nutrition.get(key, 0) or 0
Nutrient(nutrition, key) ==
    LET v == Get(nutrition, key, Some(0))
    IN  IF v = Null THEN 0 ELSE v[1]

\* nutrition.get(...) on None raises AttributeError
ParseRaises(data) ==
    \E i \in DOMAIN DayEntries(Get(data, "days", <<>>)) :
        LET food == FoodOf(DayEntries(Get(data, "days", <<>>))[i])
        IN  food # Null /\ NutritionOf(food[1]) = Null

\* the item dicts appended for a list of entries; an entry whose food is
\* None is skipped
RECURSIVE ParseEntries(_, _)
ParseEntries(entries, dining_hall) ==
    IF entries = <<>> THEN <<>>
    ELSE LET food == FoodOf(Head(entries))
             rest == ParseEntries(Tail(entries), dining_hall)
         IN  IF food = Null THEN rest
             ELSE LET nutrition == NutritionOf(food[1])[1]
                  IN  << Item(Get(food[1], "name", "Unknown"),
                              Nutrient(nutrition, "g_protein"),
                              Nutrient(nutrition, "calories"),
                              Nutrient(nutrition, "g_fat"),
                              Nutrient(nutrition, "g_carbs"),
                              HallName(dining_hall)) >> \o rest

\* menu_items as lines 113-147 build it from the decoded response
ParseMenu(data, dining_hall) ==
    ParseEntries(DayEntries(Get(data, "days", <<>>)), dining_hall)

\* the try block reaches _save_to_cache: the request succeeded,
\* raise_for_status() and response.json() did not raise, nor did the parsing
Succeeds(response) ==
    /\ response.status = 200
    /\ response.json # Null
    /\ ~ParseRaises(response.json[1])

\* responses of the API.  A food entry of the week's menu
FoodEntry(name, nutrition) ==
    [food |-> Some([name |-> name, rounded_nutrition_info |-> nutrition])]

\* a week with a complete item, an entry whose food is null, an entry without
\* food, a day without menu_items, and an item with a null and a missing value
WeekData ==
    [days |-> <<
        [date |-> "2024-01-01", menu_items |-> <<
            FoodEntry("Grilled Chicken",
                      Some([calories |-> Some(200), g_protein |-> Some(35),
                            g_fat |-> Some(5), g_carbs |-> Some(0)])),
            [food |-> Null],
            [text |-> "Entrees"] >>],
        [date |-> "2024-01-02"],
        [date |-> "2024-01-03", menu_items |-> <<
            FoodEntry("Garden Salad",
                      Some([calories |-> Some(80), g_protein |-> Some(15),
                            g_fat |-> Null])) >>] >>]

\* a week without days
EmptyData == [start_date |-> "2024-01-01"]

\* a week whose second item has no nutrition record
BrokenData ==
    [days |-> <<
        [date |-> "2024-01-01", menu_items |-> <<
            FoodEntry("Steamed Broccoli",
                      Some([calories |-> Some(30), g_protein |-> Some(3)])),
            FoodEntry("Daily Special", Null) >>] >>]

\* what requests.get(url) gives: an error status (raise_for_status raises; a
\* connection error raises at the same place), a body that is not JSON
\* (response.json() raises), or a decoded body
ApiResponses ==
    { [status |-> 503, json |-> Null],
      [status |-> 200, json |-> Null],
      [status |-> 200, json |-> Some(WeekData)],
      [status |-> 200, json |-> Some(EmptyData)],
      [status |-> 200, json |-> Some(BrokenData)] }

HallIds == {"west-village", "north-ave-dining-hall"}
MealTypes == {"lunch"}

\* dates given to fetch_menu besides the default datetime.now()
ExplicitDates == {3}

\* datetime.now() advances between calls
Tick ==
    /\ now < MaxDay
    /\ now' = now + 1
    /\ UNCHANGED <<menu_items, added, search_vars, cat_item, cat_result,
                   score_vars, cache, fetches, fetch_key, api_response,
                   fetch_result>>

\* self.clear_cache()
ClearCache ==
    /\ cache' = <<>>
    /\ UNCHANGED <<menu_items, added, search_vars, cat_item, cat_result,
                   score_vars, now, fetches, fetch_key, api_response,
                   fetch_result>>

\* items = self.fetch_menu(dining_hall, meal_type, date); response is what
\* the API answers if the call contacts it
FetchMenu(dining_hall, meal_type, date, response) ==
    /\ fetches < MaxFetches
    /\ fetches' = fetches + 1
    /\ \E cache_key \in {get_cache_key(dining_hall, meal_type, date)} :
       \E cached_items \in {load_from_cache(cache, cache_key, now)} :
          /\ fetch_key' = cache_key
          /\ IF cached_items # Null
             THEN /\ api_response' = Null
                  /\ fetch_result' = cached_items[1]
                  /\ cache' = cache
             ELSE /\ api_response' = Some(response)
                  /\ IF Succeeds(response)
                     THEN \E menu_items_ \in
                              {ParseMenu(response.json[1], dining_hall)} :
                              /\ cache' = save_to_cache(cache, cache_key,
                                                        menu_items_, now)
                              /\ fetch_result' = menu_items_
                     ELSE /\ cache' = cache
                          /\ fetch_result' = <<>>
    /\ UNCHANGED <<menu_items, added, search_vars, cat_item, cat_result,
                   score_vars, now>>

InitFetch ==
    /\ menu_items = <<>>
    /\ NoSearch
    /\ NoCategorize
    /\ NoScoring
    /\ NoFetching

NextFetch ==
    \/ Tick
    \/ ClearCache
    \/ \E dining_hall \in HallIds, meal_type \in MealTypes,
          date \in {now} \cup ExplicitDates, response \in ApiResponses :
          FetchMenu(dining_hall, meal_type, date, response)

SpecFetch == InitFetch /\ [][NextFetch]_vars

-----------------------------------------------------------------------------
(* Properties of find_combinations, stated on the latest call: its         *)
(* arguments (args), its locals and the list it returned (result).         *)

\* names of the members of a combination, read through the caller's list
MemberNames(c) == {menu_items[c.items[k]].name : k \in DOMAIN c.items}

\* number of members of c that carry the name
NameCount(c, name) ==
    Cardinality({k \in DOMAIN c.items : menu_items[c.items[k]].name = name})

\* c and d have the same multiset of member names
SameNames(c, d) ==
    /\ Len(c.items) = Len(d.items)
    /\ \A name \in MemberNames(c) \cup MemberNames(d) :
          NameCount(c, name) = NameCount(d, name)

\* sums of the members' protein and calories
MemberProtein(c) ==
    SumSeq(List([k \in DOMAIN c.items |-> menu_items[c.items[k]].protein]))
MemberCalories(c) ==
    SumSeq(List([k \in DOMAIN c.items |-> menu_items[c.items[k]].calories]))

\* total_protein / max(total_calories, 1) of c is greater than, equal to d's
EfficiencyGreater(c, d) ==
    c.total_protein * Max(d.total_calories, 1)
        > d.total_protein * Max(c.total_calories, 1)
EfficiencyEqual(c, d) ==
    c.total_protein * Max(d.total_calories, 1)
        = d.total_protein * Max(c.total_calories, 1)

\* c ranks strictly above d
Outranks(c, d) ==
    \/ EfficiencyGreater(c, d)
    \/ EfficiencyEqual(c, d) /\ c.total_protein > d.total_protein

\* C1: every returned combination has total_protein >= protein_goal and
\* total_calories <= calorie_limit, the totals being the sums of the member
\* items' protein and calories.
C1_Feasibility ==
    \A k \in DOMAIN result :
        /\ result[k].total_protein = MemberProtein(result[k])
        /\ result[k].total_calories = MemberCalories(result[k])
        /\ result[k].total_protein >= args.protein_goal
        /\ result[k].total_calories <= args.calorie_limit

\* a call returned a three-item combination
C1_Witness ==
    /\ calls > 0
    /\ args.protein_goal > 0 /\ args.calorie_limit > 0
    /\ \E k \in DOMAIN result : Len(result[k].items) = 3

\* C2: no returned combination contains two member items with the same name.
C2_DistinctNames ==
    \A k \in DOMAIN result :
        \A m, n \in DOMAIN result[k].items :
            m # n => menu_items[result[k].items[m]].name
                        # menu_items[result[k].items[n]].name

\* C3: no two entries of the returned list have the same multiset of member
\* item names.
C3_UniqueNameSets ==
    \A j, k \in DOMAIN result :
        j < k => ~SameNames(result[j], result[k])

\* two candidates with the same names in different member order were
\* enumerated, and the returned list holds an entry with these names
C3_Witness ==
    /\ calls > 0
    /\ \E j, k \in DOMAIN valid_combos :
          /\ j < k
          /\ SameNames(valid_combos[j], valid_combos[k])
          /\ valid_combos[j].items # valid_combos[k].items
          /\ \E r \in DOMAIN result : SameNames(result[r], valid_combos[j])

\* C4: of two adjacent returned entries the earlier has protein efficiency
\* greater than or equal to the later's, and on equal efficiency a total
\* protein greater than or equal to the later's.
C4_Ranked ==
    \A k \in 1..(Len(result) - 1) :
        /\ ~EfficiencyGreater(result[k + 1], result[k])
        /\ EfficiencyEqual(result[k], result[k + 1])
               => result[k].total_protein >= result[k + 1].total_protein

\* two adjacent entries tie on efficiency and differ in total protein
C4_Witness ==
    \E k \in 1..(Len(result) - 1) :
        /\ EfficiencyEqual(result[k], result[k + 1])
        /\ result[k].total_protein > result[k + 1].total_protein

\* C5: at most 15 entries are returned, and they are the 15 highest-ranked
\* of the deduplicated feasible candidates: no dropped candidate ranks
\* strictly above a returned one.
C5_TopFifteen ==
    /\ Len(result) <= 15
    /\ Len(result) = Min(15, Len(unique_combos))
    /\ Range(result) \subseteq Range(unique_combos)
    /\ \A u \in Range(unique_combos) \ Range(result) :
          \A r \in Range(result) : ~Outranks(u, r)

\* more than 15 deduplicated candidates existed, so some were dropped
C5_Witness ==
    /\ calls > 0
    /\ Len(unique_combos) > 15
    /\ Len(result) = 15

\* C6: a call with the same list and the same arguments as the call before
\* it returns the same output (order, members, totals, item contents).
C6_Idempotent ==
    (calls >= 2 /\ args = prev_args) => returned = prev_returned

\* the second of two equal calls returned a list of several entries
C6_Witness ==
    /\ calls >= 2
    /\ args = prev_args
    /\ Len(result) >= 2
    /\ \E i \in DOMAIN menu_items : menu_items[i].category # NoCategory

\* a candidate pair of strategy 1: different names, goal met within the limit
FeasiblePair(p, v) ==
    /\ menu_items[p].name # menu_items[v].name
    /\ menu_items[p].protein + menu_items[v].protein >= args.protein_goal
    /\ menu_items[p].calories + menu_items[v].calories <= args.calorie_limit

\* entry c is made of the names of items p and v
HasPairNames(c, p, v) ==
    /\ Len(c.items) = 2
    /\ MemberNames(c) = {menu_items[p].name, menu_items[v].name}

\* entry c has the summed totals of items p and v
HasPairTotals(c, p, v) ==
    /\ c.total_protein = menu_items[p].protein + menu_items[v].protein
    /\ c.total_calories = menu_items[p].calories + menu_items[v].calories

\* every pre-filtered item with the name of item i has i's protein and calories
SameNutritionPerName(i) ==
    \A j \in Range(valid_items) :
        menu_items[j].name = menu_items[i].name
            => /\ menu_items[j].protein = menu_items[i].protein
               /\ menu_items[j].calories = menu_items[i].calories

\* C7 as stated: when fewer than 15 entries are returned, every feasible pair
\* of a top-15 protein and a top-15 vegetable with different names appears in
\* the result with its summed totals.
C7_PairWithTotals ==
    (calls > 0 /\ Len(result) < 15) =>
        \A p \in Range(Take(top_proteins, 15)), v \in Range(Take(top_veggies, 15)) :
            FeasiblePair(p, v) =>
                \E k \in DOMAIN result :
                    HasPairNames(result[k], p, v) /\ HasPairTotals(result[k], p, v)

\* C7 amended: when fewer than 15 entries are returned, every such pair
\* appears in the result as an entry with exactly the pair's two names, and
\* that entry has the pair's summed totals whenever no item of the same name
\* has other protein or calories.
C7_PairByName ==
    (calls > 0 /\ Len(result) < 15) =>
        \A p \in Range(Take(top_proteins, 15)), v \in Range(Take(top_veggies, 15)) :
            FeasiblePair(p, v) =>
                \E k \in DOMAIN result :
                    /\ HasPairNames(result[k], p, v)
                    /\ (SameNutritionPerName(p) /\ SameNutritionPerName(v))
                           => HasPairTotals(result[k], p, v)

\* the scenario of the specification: Grilled Chicken 35g/200cal with Steamed
\* Broccoli 3g/30cal, goal 30, limit 300, returned with totals 38 and 230
C7_Witness ==
    /\ calls > 0
    /\ Len(result) < 15
    /\ args = Args(30, 300, None)
    /\ \E k \in DOMAIN result :
          /\ MemberNames(result[k]) = {"Grilled Chicken", "Steamed Broccoli"}
          /\ result[k].total_protein = 38
          /\ result[k].total_calories = 230

\* some one, two or three items of the list meet the goal within the limit
SomeMealFeasible ==
    LET D    == DOMAIN menu_items
        P(i) == menu_items[i].protein
        K(i) == menu_items[i].calories
        ok(protein, calories) == /\ protein >= args.protein_goal
                                 /\ calories <= args.calorie_limit
    IN  \/ \E i \in D : ok(P(i), K(i))
        \/ \E i, j \in D : i < j /\ ok(P(i) + P(j), K(i) + K(j))
        \/ \E i, j, k \in D :
              i < j /\ j < k /\ ok(P(i) + P(j) + P(k), K(i) + K(j) + K(k))

\* C8: on an empty item list, and when no combination meets the protein goal
\* within the calorie limit, the call returns an empty list.
C8_EmptyResult ==
    (calls > 0 /\ (menu_items = <<>> \/ ~SomeMealFeasible)) => result = <<>>

\* a call on a pool with protein items and an unreachable goal returned nothing
C8_Witness ==
    /\ calls > 0
    /\ args.protein_goal = 200
    /\ Len(top_proteins) >= 2
    /\ ~SomeMealFeasible
    /\ result = <<>>

\* the fields of an item dict that fetch_menu sets
FetchedFields == {"name", "calories", "protein", "fat", "carbs", "dining_hall"}

\* C11 as stated: a call leaves every record of the caller's list with the
\* fields and values it had before the call.
C11_NoPersist ==
    [][calls' # calls => menu_items' = menu_items]_vars

\* C11 amended: a call changes nothing of the caller's list but the category
\* and protein_efficiency fields of the records that pass the pre-filter,
\* which it sets: the list keeps its length and order, every record keeps the
\* fields it was fetched with, and a record that does not pass the pre-filter
\* is left as it was.
C11_OnlyAnnotations ==
    [][calls' # calls =>
          /\ Len(menu_items') = Len(menu_items)
          /\ \A i \in DOMAIN menu_items :
                /\ \A f \in FetchedFields : menu_items'[i][f] = menu_items[i][f]
                /\ i \notin Range(valid_items') => menu_items'[i] = menu_items[i]
                /\ i \in Range(valid_items') =>
                      /\ menu_items'[i].category # NoCategory
                      /\ menu_items'[i].protein_efficiency # NoEfficiency]_vars

\* after a call the list holds a record with the two computed fields and a
\* filtered-out record without them
C11_Witness ==
    /\ calls > 0
    /\ \E i \in Range(valid_items) :
          /\ menu_items[i].category # NoCategory
          /\ menu_items[i].protein_efficiency # NoEfficiency
    /\ \E j \in DOMAIN menu_items :
          /\ j \notin Range(valid_items)
          /\ menu_items[j].category = NoCategory

\* the components of a returned tuple (combo, total_protein, total_calories)
TupleFields == {"items", "total_protein", "total_calories"}

\* C12: every returned entry exposes, besides its member items, total_protein
\* and total_calories, the score breakdown of calculate_meal_score.
C12_ScoreBreakdown ==
    \A k \in DOMAIN result : DOMAIN result[k] \ TupleFields # {}

\* C13: every member item of every returned combination carries a category
\* tag, and the tag is categorize_food of the item.
C13_CategoryTag ==
    \A k \in DOMAIN returned :
        \A m \in DOMAIN returned[k].items :
            LET item == returned[k].items[m][2]
            IN  /\ item.category # NoCategory
                /\ item.category = categorize_food(item)

\* a returned combination holds an item tagged by keyword against its
\* nutrition (15 g of protein, tagged vegetable) next to a protein
C13_Witness ==
    \E k \in DOMAIN returned :
        /\ \E m \in DOMAIN returned[k].items :
              /\ returned[k].items[m][2].category = "vegetable"
              /\ returned[k].items[m][2].protein >= 15
        /\ \E m \in DOMAIN returned[k].items :
              returned[k].items[m][2].category = "protein"

\* C16: every member item of every returned combination has
\* 0 < calories < calorie_limit and, when a location filter is given, that
\* location; an item with calories = calorie_limit is never returned.
C16_PreFilter ==
    \A k \in DOMAIN result :
        \A m \in DOMAIN result[k].items :
            LET item == menu_items[result[k].items[m]]
            IN  /\ item.calories > 0
                /\ item.calories < args.calorie_limit
                /\ args.dining_hall_filter # None
                       => item.dining_hall = args.dining_hall_filter

\* the list holds an item with calories = calorie_limit that meets the
\* protein goal alone, and the call returned combinations without it
C16_Witness ==
    /\ calls > 0
    /\ result # <<>>
    /\ \E i \in DOMAIN menu_items :
          /\ menu_items[i].calories = args.calorie_limit
          /\ menu_items[i].protein >= args.protein_goal
          /\ \A k \in DOMAIN result : i \notin Range(result[k].items)

\* a candidate triple of strategy 4: three different names, goal met within
\* the limit
FeasibleTriple(p, q, v) ==
    /\ Cardinality({menu_items[p].name, menu_items[q].name, menu_items[v].name}) = 3
    /\ menu_items[p].protein + menu_items[q].protein + menu_items[v].protein
           >= args.protein_goal
    /\ menu_items[p].calories + menu_items[q].calories + menu_items[v].calories
           <= args.calorie_limit

\* entry c is made of the names of items p, q and v
HasTripleNames(c, p, q, v) ==
    /\ Len(c.items) = 3
    /\ MemberNames(c) = {menu_items[p].name, menu_items[q].name, menu_items[v].name}

\* entry c has the summed totals of items p, q and v
HasTripleTotals(c, p, q, v) ==
    /\ c.total_protein
           = menu_items[p].protein + menu_items[q].protein + menu_items[v].protein
    /\ c.total_calories
           = menu_items[p].calories + menu_items[q].calories + menu_items[v].calories

\* the result covers the feasible triples of distinct names whose proteins
\* stand at positions i < j of the pool, i <= firstCap and j <= 15, and whose
\* vegetable is among the top 10
CoversDoubleProtein(firstCap, withTotals) ==
    \A i \in 1..Min(firstCap, Len(top_proteins)) :
        \A j \in (i + 1)..Min(15, Len(top_proteins)) :
            \A v \in Range(Take(top_veggies, 10)) :
                LET p == top_proteins[i]
                    q == top_proteins[j]
                IN  FeasibleTriple(p, q, v) =>
                        \E k \in DOMAIN result :
                            /\ HasTripleNames(result[k], p, q, v)
                            /\ (/\ withTotals
                                /\ SameNutritionPerName(p)
                                /\ SameNutritionPerName(q)
                                /\ SameNutritionPerName(v))
                                   => HasTripleTotals(result[k], p, q, v)

\* C14 as stated: when fewer than 15 entries are returned, every feasible
\* triple of distinct names made of two protein-pool items at positions i < j
\* inside the top 15 (first positions 11 to 14 included) and a top-10
\* vegetable appears in the result.
C14_DoubleProteinTopFifteen ==
    (calls > 0 /\ Len(result) < 15) => CoversDoubleProtein(15, FALSE)

\* C14 amended: the first protein is taken from the top 10 of the pool and the
\* second from the positions after it inside the top 15; when fewer than 15
\* entries are returned every such feasible triple of distinct names appears
\* in the result under its three names, with its summed totals when no item
\* of the same name has other protein or calories.
C14_DoubleProteinFirstTen ==
    (calls > 0 /\ Len(result) < 15) => CoversDoubleProtein(10, TRUE)

\* fewer than 15 entries were returned, one of them a feasible triple whose
\* second protein stands at a position after the 10th of the pool
C14_Witness ==
    /\ calls > 0
    /\ Len(result) < 15
    /\ \E i \in 1..Min(10, Len(top_proteins)) :
       \E j \in 11..Min(15, Len(top_proteins)) :
       \E v \in Range(Take(top_veggies, 10)) :
          /\ FeasibleTriple(top_proteins[i], top_proteins[j], v)
          /\ \E k \in DOMAIN result :
                result[k].items = <<top_proteins[i], top_proteins[j], v>>

\* the strategy that emitted candidate c: its length and the pool of its
\* last member tell (the vegetable and carb pools are disjoint)
IsSingle(c)            == Len(c.items) = 1
IsProteinVeggie(c)     == Len(c.items) = 2 /\ c.items[2] \in Range(top_veggies)
IsProteinVeggieCarb(c) == Len(c.items) = 3 /\ c.items[3] \in Range(top_carbs)
IsProteinCarb(c)       == Len(c.items) = 2 /\ c.items[2] \in Range(top_carbs)
IsDoubleProtein(c)     == Len(c.items) = 3 /\ c.items[3] \in Range(top_veggies)

\* rank of c's strategy in the order of the claim (single items first) and
\* in the order of the source (single items last)
ClaimedRank(c) ==
    IF IsSingle(c) THEN 1 ELSE IF IsProteinVeggie(c) THEN 2
    ELSE IF IsProteinVeggieCarb(c) THEN 3 ELSE IF IsProteinCarb(c) THEN 4 ELSE 5
SourceRank(c) ==
    IF IsProteinVeggie(c) THEN 1 ELSE IF IsProteinVeggieCarb(c) THEN 2
    ELSE IF IsProteinCarb(c) THEN 3 ELSE IF IsDoubleProtein(c) THEN 4 ELSE 5

\* position of candidate c in the sequence scanned by deduplication
Pos(c) == CHOOSE n \in DOMAIN valid_combos : valid_combos[n] = c

\* c and d tie on efficiency and on total protein
Ties(c, d) == EfficiencyEqual(c, d) /\ c.total_protein = d.total_protein

\* the entry kept for a name key is its first occurrence in valid_combos, and
\* the kept entries stay in the order of valid_combos
FirstOccurrenceKept ==
    /\ Range(unique_combos) \subseteq Range(valid_combos)
    /\ \A n \in DOMAIN valid_combos :
          \E u \in DOMAIN unique_combos :
              /\ SameNames(unique_combos[u], valid_combos[n])
              /\ Pos(unique_combos[u]) <= n
    /\ \A j, k \in DOMAIN unique_combos :
          j < k => Pos(unique_combos[j]) < Pos(unique_combos[k])

\* returned entries that tie keep the order of valid_combos
TiesKeepOrder ==
    /\ Range(result) \subseteq Range(valid_combos)
    /\ \A j, k \in DOMAIN result :
          (j < k /\ Ties(result[j], result[k]))
              => Pos(result[j]) < Pos(result[k])

\* C15 as stated: the candidates scanned by deduplication come in the order
\* single items, protein+vegetable, protein+vegetable+carb, protein+carb,
\* double protein+vegetable; the first occurrence is kept for a name key;
\* tying entries keep that order, a single item before a tying larger entry.
C15_SinglesFirst ==
    /\ \A j, k \in DOMAIN valid_combos :
          j < k => ClaimedRank(valid_combos[j]) <= ClaimedRank(valid_combos[k])
    /\ FirstOccurrenceKept
    /\ TiesKeepOrder
    /\ \A j, k \in DOMAIN result :
          (j < k /\ Ties(result[j], result[k]))
              => ~(IsSingle(result[k]) /\ ~IsSingle(result[j]))

\* C15 amended: the candidates come in the order protein+vegetable,
\* protein+vegetable+carb, protein+carb, double protein+vegetable, single
\* items; the first occurrence is kept for a name key; tying entries keep
\* that order, a single item after a tying larger entry.
C15_SinglesLast ==
    /\ \A j, k \in DOMAIN valid_combos :
          j < k => SourceRank(valid_combos[j]) <= SourceRank(valid_combos[k])
    /\ FirstOccurrenceKept
    /\ TiesKeepOrder
    /\ \A j, k \in DOMAIN result :
          (j < k /\ Ties(result[j], result[k]))
              => ~(IsSingle(result[j]) /\ ~IsSingle(result[k]))

\* a single item was returned right after a pair that ties with it, and two
\* strategies emitted candidates of the same names
C15_Witness ==
    /\ \E k \in 1..(Len(result) - 1) :
          /\ Ties(result[k], result[k + 1])
          /\ IsProteinVeggie(result[k])
          /\ IsSingle(result[k + 1])
    /\ \E j, n \in DOMAIN valid_combos :
          /\ IsProteinVeggieCarb(valid_combos[j])
          /\ IsDoubleProtein(valid_combos[n])
          /\ SameNames(valid_combos[j], valid_combos[n])

\* the pre-filtered items with at least 10 g of protein
ProteinCandidates == {i \in Range(valid_items) : menu_items[i].protein >= 10}

\* item x ranks strictly above item y under (protein_efficiency descending,
\* protein descending)
ItemOutranks(x, y) ==
    LET px == menu_items[x].protein
        py == menu_items[y].protein
        cx == Max(menu_items[x].calories, 1)
        cy == Max(menu_items[y].calories, 1)
    IN  \/ px * cy > py * cx
        \/ px * cy = py * cx /\ px > py

\* C17: the protein pool holds at most 30 items, each pre-filtered with
\* protein >= 10 whatever its category, in the order (protein_efficiency
\* descending, protein descending), and it is the top of them: no such item
\* left out ranks strictly above an item of the pool.
C17_ProteinPool ==
    /\ Len(top_proteins) <= 30
    /\ Len(top_proteins) = Min(30, Cardinality(ProteinCandidates))
    /\ Range(top_proteins) \subseteq ProteinCandidates
    /\ Cardinality(Range(top_proteins)) = Len(top_proteins)
    /\ \A j, k \in DOMAIN top_proteins :
          j < k => ~ItemOutranks(top_proteins[k], top_proteins[j])
    /\ \A x \in ProteinCandidates \ Range(top_proteins) :
          \A p \in Range(top_proteins) : ~ItemOutranks(x, p)

\* more than 30 items qualified: the pool holds 30, among them an item that
\* is not tagged protein, and an item was left out
C17_Witness ==
    /\ calls > 0
    /\ Len(top_proteins) = 30
    /\ ProteinCandidates \ Range(top_proteins) # {}
    /\ \E p \in Range(top_proteins) : menu_items[p].category = "vegetable"

-----------------------------------------------------------------------------
(* Properties of calculate_meal_score, stated on the call recorded in       *)
(* score_items, score_args and score_result.                                *)

Scored == score_result # <<>>

\* the meal misses the protein goal or exceeds the calorie limit
ScoreInfeasible ==
    \/ Total(score_items, "protein") < score_args.protein_goal
    \/ Total(score_items, "calories") > score_args.calorie_limit

\* the four sub-scores as the returned reasons give them; the efficiency
\* points are min(80 * protein_efficiency, 40), macro_balance is absent when
\* the meal has no macro calories
EfficiencyPoints ==
    LET e == score_result[2].protein_efficiency
    IN  RatioMin(Ratio(80 * e[1], e[2]), Ratio(40, 1))
PrecisionPoints == score_result[2].precision
BalancePoints ==
    IF "macro_balance" \in DOMAIN score_result[2]
    THEN score_result[2].macro_balance ELSE 0
CompositionPoints == score_result[2].composition

\* C18: an infeasible meal gets score 0 and an empty detail; otherwise the
\* score is the sum of the four sub-scores, each within its cap (efficiency
\* 40, precision 20, macro balance 25, composition 15), so that a feasible
\* non-empty meal scores more than 0 and at most 100.
C18_ScoreBounds ==
    Scored =>
        /\ ScoreInfeasible =>
              /\ RatioEq(score_result[1], Ratio(0, 1))
              /\ DOMAIN score_result[2] = {}
        /\ ~ScoreInfeasible =>
              /\ RatioEq(score_result[1],
                         RatioAdd(RatioAdd(EfficiencyPoints, PrecisionPoints),
                                  Ratio(BalancePoints + CompositionPoints, 1)))
              /\ RatioLeq(Ratio(0, 1), EfficiencyPoints)
              /\ RatioLeq(EfficiencyPoints, Ratio(40, 1))
              /\ RatioLeq(Ratio(0, 1), PrecisionPoints)
              /\ RatioLeq(PrecisionPoints, Ratio(20, 1))
              /\ BalancePoints \in 0..25
              /\ CompositionPoints \in 0..15
              /\ RatioLeq(score_result[1], Ratio(100, 1))
              /\ score_items # <<>> => ~RatioLeq(score_result[1], Ratio(0, 1))

\* a feasible meal of a protein, a vegetable and a carb, whose composition
\* points 7 + 5 + 2 + 3 are cut to 15
C18_Witness ==
    /\ Scored
    /\ ~ScoreInfeasible
    /\ Len(score_items) = 3
    /\ Range(score_result[2].categories) = {"protein", "vegetable", "carb"}
    /\ score_result[2].composition = 15

-----------------------------------------------------------------------------
(* Properties of fetch_menu, stated on the step of a call and on the call  *)
(* recorded in fetch_key, api_response and fetch_result.                   *)

\* the step is a fetch_menu call
FetchStep == fetches' # fetches

\* a cache entry younger than 7 days exists for the key
FreshEntry(files, key, today) ==
    /\ key \in DOMAIN files
    /\ today - files[key].timestamp < CacheDays

\* the latest call contacted the API and the request or the parsing failed
FetchFailed == api_response # Null /\ ~Succeeds(api_response[1])

\* a call contacts the API only when no fresh entry exists for its key, and
\* always when none exists
ContactOnlyOnMiss ==
    FetchStep =>
        (api_response' # Null <=> ~FreshEntry(cache, fetch_key', now))

\* a failed call returns an empty list and leaves every cache file as it was
FailureWritesNothing ==
    FetchStep /\ FetchFailed' => fetch_result' = <<>> /\ cache' = cache

\* a call changes no cache file but that of its own key, and that one only
\* to the items it returns, stamped with the time of the call
OnlyOwnEntryWritten ==
    FetchStep =>
        \A k \in DOMAIN cache \cup DOMAIN cache' :
            \/ k \in DOMAIN cache /\ k \in DOMAIN cache' /\ cache'[k] = cache[k]
            \/ /\ k = fetch_key'
               /\ api_response' # Null
               /\ Succeeds(api_response'[1])
               /\ cache'[k] = [timestamp |-> now, menu_items |-> fetch_result']

\* every cache entry holds the items of a successful response for its key
CacheHoldsResponses ==
    \A k \in DOMAIN cache :
        \E dining_hall \in HallIds, meal_type \in MealTypes,
           date \in 0..MaxDay, response \in ApiResponses :
            /\ k = get_cache_key(dining_hall, meal_type, date)
            /\ Succeeds(response)
            /\ cache[k].menu_items = ParseMenu(response.json[1], dining_hall)

\* after a failed call no fresh entry exists for its key, whatever time has
\* passed since
NoEntryAfterFailure == FetchFailed => ~FreshEntry(cache, fetch_key, now)

\* C19: over any sequence of fetch_menu calls, a call contacts the API only
\* when no cache entry younger than 7 days exists for its (dining hall, meal
\* type, Monday of the week) key; a call whose request or parsing fails
\* returns an empty list and writes nothing to the cache, so that every cache
\* entry holds the items of a successful response and a later call for the
\* same key contacts the API again.
C19_FetchCache ==
    /\ [][ContactOnlyOnMiss /\ FailureWritesNothing /\ OnlyOwnEntryWritten]_vars
    /\ [](CacheHoldsResponses /\ NoEntryAfterFailure)

\* a week's menu was cached, a call for the same key more than 7 days later
\* contacted the API, the parsing failed, and the old entry is still there
C19_Witness ==
    /\ FetchFailed
    /\ api_response[1].json = Some(BrokenData)
    /\ fetch_result = <<>>
    /\ fetch_key \in DOMAIN cache
    /\ now - cache[fetch_key].timestamp >= CacheDays
    /\ cache[fetch_key].menu_items # <<>>

-----------------------------------------------------------------------------
(* Properties of categorize_food, stated on the call recorded in cat_item  *)
(* and cat_result.                                                         *)

Categorized == cat_result # NoCategory

\* the lowercased name has a substring match in the keyword list
Hit(keywords) == MatchesAny(Lower(cat_item.name), keywords)

NoKeywordHit ==
    ~Hit(protein_keywords) /\ ~Hit(vegetable_keywords)
        /\ ~Hit(fruit_keywords) /\ ~Hit(carb_keywords)

\* C9: the category is that of the first keyword list, in the order protein,
\* vegetable, fruit, carb, with a substring match in the lowercased name,
\* whatever the nutrition values; "Chicken Salad" is protein.
C9_KeywordPriority ==
    Categorized =>
        /\ Hit(protein_keywords) => cat_result = "protein"
        /\ (~Hit(protein_keywords) /\ Hit(vegetable_keywords))
               => cat_result = "vegetable"
        /\ (~Hit(protein_keywords) /\ ~Hit(vegetable_keywords) /\ Hit(fruit_keywords))
               => cat_result = "fruit"
        /\ (~Hit(protein_keywords) /\ ~Hit(vegetable_keywords)
                /\ ~Hit(fruit_keywords) /\ Hit(carb_keywords))
               => cat_result = "carb"
        /\ cat_item.name = "Chicken Salad" => cat_result = "protein"
        /\ cat_item.name = "Corn Bread" => cat_result = "vegetable"
        /\ cat_item.name = "Pineapple Rice" => cat_result = "fruit"

\* "Chicken Salad" with the nutrition of a carb was classified protein
C9_Witness ==
    /\ cat_item.name = "Chicken Salad"
    /\ cat_item.protein = 0
    /\ cat_item.carbs = 25
    /\ cat_result = "protein"

\* C10: without a keyword match the category follows the ordered nutrition
\* rules (protein >= 15: protein; else carbs >= 25 and protein < 8: carb; else
\* calories < 50 and carbs < 15: vegetable; else other), and every item gets
\* one of the five categories.
C10_NutritionFallback ==
    Categorized =>
        /\ cat_result \in {"protein", "carb", "vegetable", "fruit", "other"}
        /\ NoKeywordHit =>
              cat_result =
                  IF cat_item.protein >= 15 THEN "protein"
                  ELSE IF cat_item.carbs >= 25 /\ cat_item.protein < 8 THEN "carb"
                  ELSE IF cat_item.calories < 50 /\ cat_item.carbs < 15 THEN "vegetable"
                  ELSE "other"

\* an item without keyword, with protein 15 exactly, was classified protein
C10_Witness ==
    /\ NoKeywordHit
    /\ cat_item.protein = 15
    /\ cat_result = "protein"

====
